---- MODULE Spec2Model ----
(***************************************************************************)
(* A model of ncmdump's command line program (src/src/main.rs): the        *)
(* coordinator Program::start, the discovery producer thread, the          *)
(* conversion worker threads, the crossbeam channel between them, the      *)
(* indicatif progress bars and the files Program::dump writes.             *)
(*                                                                         *)
(* Strings that the code takes apart (file names, extensions) are          *)
(* sequences of one-character strings; bytes are numbers 0..255.           *)
(* An Option is a sequence of length 0 (None) or 1 (Some).                 *)
(***************************************************************************)
EXTENDS Integers, Sequences, FiniteSets, TLC

\* ------------------------------------------------------------- bounds ----
\* Worker counts 0..WorkerBound are run (and MaxWorker + 1, which is refused).
WorkerBound == 2
\* Entries all the glob iterators of one run yield together, at most.
MaxPaths == 2
\* Patterns on the command line, at most.
MaxMatchers == 2
\* Length of a file name in the path specification, at most.
MaxNameLen == 5

\* ---------------------------------------------------- program constants ----
MinWorker == 1
MaxWorker == 8
\* data[..4]: the number of leading bytes dump looks at.
SigLen == 4

None == <<>>
Some(x) == <<x>>
IsSome(o) == Len(o) = 1
Unwrap(o) == o[1]



RECURSIVE Concat(_)
Concat(ss) == IF ss = <<>> THEN <<>> ELSE Head(ss) \o Concat(Tail(ss))

\* ------------------------------------------------------ std::path::Path ----
\* The index of the last "." of a file name, 0 when it has none.
RECURSIVE LastDot(_)
LastDot(name) ==
    IF name = <<>> THEN 0
    ELSE IF name[Len(name)] = "." THEN Len(name)
    ELSE LastDot(SubSeq(name, 1, Len(name) - 1))

\* Path::file_stem of a path whose last component is `name`: the name up to
\* its last ".", the whole name when it has no "." or only a leading one.
file_stem(name) ==
    IF LastDot(name) <= 1 THEN name ELSE SubSeq(name, 1, LastDot(name) - 1)

\* Path::extension: what follows the last ".", None when file_stem is the
\* whole name.
extension(name) ==
    IF LastDot(name) <= 1 THEN None
    ELSE Some(SubSeq(name, LastDot(name) + 1, Len(name)))

\* Path::join with a relative one-component path.
join(parent, file_name) == [dir |-> parent, name |-> file_name]

\* Path::with_extension (ext not empty): the file name is cut back to its
\* file_stem, then "." and ext are appended.
with_extension(path, ext) ==
    [path EXCEPT !.name = file_stem(path.name) \o <<".">> \o ext]

\* Path::parent of dir/name.
parent(path) == Some(path.dir)

\* ------------------------------------------------- signatures (dump) ----
FLAC == <<"f", "l", "a", "c">>
MP3 == <<"m", "p", "3">>
FlacMagic == <<102, 76, 97, 67>>
Id3Magic == <<73, 68, 51>>

\* A mutant of SniffExt: the mp3 signature is compared in all 4 bytes.
SniffExtStrict(data) ==
    IF SubSeq(data, 1, SigLen) = FlacMagic THEN Some(FLAC)
    ELSE IF SubSeq(data, 1, SigLen) = Id3Magic \o <<3>> THEN Some(MP3)
    ELSE None

\* main.rs:162-166, for data of at least SigLen bytes: Some(ext) or None
\* (Error::Format).
SniffExt(data) ==
    IF SubSeq(data, 1, SigLen) = FlacMagic THEN Some(FLAC)
    ELSE IF SubSeq(data, 1, SigLen - 1) = Id3Magic THEN Some(MP3)
    ELSE None

\* main.rs:167-173: the path dump opens for writing.
OutPath(path, output, ext) ==
    LET par == IF IsSome(output) THEN Unwrap(output) ELSE Unwrap(parent(path))
    IN  with_extension(join(par, file_stem(path.name)), ext)

\* ------------------------------------------------------- environment ----
\* A file on disk: its path, what FileType::parse finds, its size, whether
\* File::open succeeds, whether the decoder's from_reader succeeds, and the
\* decoder's stream: the non-empty chunks its reads return, then "eof"
\* (a read of 0 bytes) or "err" (a failing read).
File(dir, name, format, size, openable, header, chunks, end) ==
    [path |-> [dir |-> dir, name |-> name], format |-> format, size |-> size,
     openable |-> openable, header |-> header, chunks |-> chunks, end |-> end]

NCM == <<".", "n", "c", "m">>

\* The disk of the pipeline specification: a valid file (V), one whose
\* decoded bytes carry no known signature (B), one that decodes to fewer
\* than SigLen bytes (S), and below one that cannot be opened (N).
FileV == File("d1", <<"a">> \o NCM, "Ncm", 6, TRUE, TRUE, <<FlacMagic, <<0>>>>, "eof")
FileB == File("d1", <<"b">> \o NCM, "Ncm", 5, TRUE, TRUE, <<<<0, 1, 2, 3>>>>, "eof")
FileS == File("d1", <<"s">> \o NCM, "Ncm", 3, TRUE, TRUE, <<<<102>>>>, "eof")
\* A file that is_file() accepts and File::open refuses (no read permission).
FileN == File("d1", <<"x">> \o NCM, "Ncm", 4, FALSE, TRUE, <<>>, "eof")
DefaultDisk == {FileV, FileB, FileS, FileN}

\* Directories in which no file can be created or opened for writing.
ReadOnlyDirs == {"ro"}

\* The file system dump writes to: a function from the paths of the files
\* that exist to their contents.
EmptyFS == [p \in {} |-> <<>>]

\* Whether every file of the set decodes and converts without any failure.
ValidFile(f) ==
    /\ f.openable /\ f.header /\ f.format # "Other" /\ f.end = "eof"
    /\ Len(Concat(f.chunks)) >= SigLen
    /\ IsSome(SniffExt(Concat(f.chunks)))

\* ------------------------------------------------------------- state ----
VARIABLES
    command,   \* Command: matchers, output, verbose, worker
    disk,      \* the input files (the environment; never changed by the run)
    files,     \* the output file system
    total,     \* Program::total, the progress bar: pos, len, fin
    items,     \* the per-file progress bars of Program::group, by descriptor
    chan,      \* the channel: queue, tx (the sender is alive)
    prod,      \* the producer thread
    wk,        \* the worker threads, in spawn order
    main,      \* Program::start on the main thread
    enq,       \* history: the descriptors sent, in order
    fate       \* history: per descriptor, receives, conversions, result

vars == <<command, disk, files, total, items, chan, prod, wk, main, enq, fate>>

DescIds == 1..MaxPaths
NoFate == [recv |-> 0, conv |-> 0, res |-> "none", bytes |-> 0, end |-> "none"]

WorkerInit ==
    [pc |-> "recv", cur |-> None, k |-> 0, data |-> <<>>, target |-> None,
     out |-> "run"]

InitWith(commands, disks, fss) ==
    /\ command \in commands
    /\ disk \in disks
    /\ files \in fss
    /\ total = [pos |-> 0, len |-> Some(0), fin |-> FALSE]
    /\ items = [i \in {} |-> 0]
    /\ chan = [queue |-> <<>>, tx |-> TRUE]
    /\ prod = [pc |-> "unspawned", mi |-> 1, n |-> 0, p |-> None, out |-> "run"]
    /\ wk = <<>>
    /\ main = [pc |-> "start", j |-> 0, result |-> "none"]
    /\ enq = <<>>
    /\ fate = [i \in DescIds |-> NoFate]

Patterns(n) == [i \in 1..n |-> "p"]

\* The command lines of the pipeline specification.
Commands ==
    [matchers : {Patterns(n) : n \in 0..MaxMatchers},
     output : {None},
     verbose : BOOLEAN,
     worker : (0..WorkerBound) \cup {MaxWorker + 1}]

Init == InitWith(Commands, {DefaultDisk}, {EmptyFS})

\* ---- the conversion specification: one worker, one file on disk ----
\* The bytes the signature table names, one byte it does not.
SigBytes == {0, 51, 67, 68, 73, 76, 97, 102}

RECURSIVE SeqsOf(_, _)
\* All sequences of length n over the set.
SeqsOf(S, n) ==
    IF n = 0 THEN {<<>>}
    ELSE {Append(s, x) : s \in SeqsOf(S, n - 1), x \in S}

ANAME == <<"a">> \o NCM
\* Files that differ in the first SigLen decoded bytes only.
SigFiles ==
    {File("d1", ANAME, "Ncm", 9, TRUE, TRUE, <<sig, <<0>>>>, "eof") :
        sig \in SeqsOf(SigBytes, SigLen)}

\* A Qmc file that decodes to an mp3 in one chunk (Q), a file whose decoder
\* cannot be built (H), a file in a read-only directory (U), a file that
\* decodes to nothing (E), and the files of the pipeline specification.
FileQ == File("d1", ANAME, "Qmc", 4, TRUE, TRUE, <<Id3Magic \o <<4>>>>, "eof")
FileH == File("d1", ANAME, "Ncm", 4, TRUE, FALSE, <<>>, "eof")
FileU == File("ro", ANAME, "Ncm", 6, TRUE, TRUE, <<FlacMagic, <<0>>>>, "eof")
FileE == File("d1", ANAME, "Ncm", 1, TRUE, TRUE, <<>>, "eof")
FileR == File("d1", ANAME, "Ncm", 7, TRUE, TRUE, <<FlacMagic, <<1, 2>>>>, "err")
FileO == File("d1", ANAME, "Other", 2, TRUE, TRUE, <<>>, "eof")
FileX == File("d1", ANAME, "Ncm", 4, FALSE, TRUE, <<>>, "eof")
CaseFiles == {FileV, FileB, FileS, FileQ, FileH, FileU, FileE, FileR, FileO, FileX}

\* What the output paths may hold before the run: nothing, or older files
\* shorter or longer than what the run decodes.
OldFS(content) ==
    [p \in {[dir |-> d, name |-> <<"a", ".">> \o e] :
               d \in {"d1", "out"}, e \in {FLAC, MP3}} |-> content]
DumpFSs == {EmptyFS, OldFS(<<9>>), OldFS(<<9, 9, 9, 9, 9, 9, 9, 9>>)}

DumpCommands ==
    [matchers : {Patterns(1)}, output : {None, Some("out")},
     verbose : BOOLEAN, worker : {MinWorker}]
PlainCommand ==
    [matchers |-> Patterns(1), output |-> None, verbose |-> FALSE,
     worker |-> MinWorker]

InitDump ==
    \/ InitWith(DumpCommands, {{f} : f \in CaseFiles}, DumpFSs)
    \/ InitWith({PlainCommand}, {{f} : f \in SigFiles}, {EmptyFS})

\* ---- the scheduling specification: a file that converts, one that fails ----
FairDisk == {FileQ, FileB}
FairCommands ==
    [matchers : {Patterns(1)}, output : {None}, verbose : {FALSE},
     worker : MinWorker..WorkerBound]

InitFair == InitWith(FairCommands, {FairDisk}, {EmptyFS})

\* ---- the collision specification: two files with one stem ----
\* The file of the pipeline as a Qmc container beside it, and in another
\* directory.
QNAME == <<"a", ".", "q", "m", "c">>
FileVQ == File("d1", QNAME, "Qmc", 6, TRUE, TRUE, <<FlacMagic, <<9>>>>, "eof")
FileVD == File("d2", ANAME, "Ncm", 6, TRUE, TRUE, <<FlacMagic, <<8>>>>, "eof")
PairCommands ==
    [matchers : {Patterns(1)}, output : {None, Some("out")},
     verbose : {FALSE}, worker : MinWorker..WorkerBound]

InitPair == InitWith(PairCommands, {{FileV, FileVQ}, {FileV, FileVD}}, {EmptyFS})

\* ---- the path specification: one worker, one valid file of any name ----
NameChars == {"a", "."}
AllDots(name) == \A i \in 1..Len(name) : name[i] = "."
\* The file names: not "." or "..", which name directories, and none whose
\* file_stem is "." or "..", which join would not add as a file name.
Names ==
    {n \in UNION {SeqsOf(NameChars, k) : k \in 1..MaxNameLen} :
        ~(AllDots(file_stem(n)) /\ Len(file_stem(n)) <= 2)}

PathFiles ==
    {File("d1", n, "Ncm", 6, TRUE, TRUE, <<magic, <<0>>>>, "eof") :
        n \in Names, magic \in {FlacMagic, Id3Magic \o <<3>>}}

PathCommands ==
    [matchers : {Patterns(1)}, output : {None, Some("out")},
     verbose : {FALSE}, worker : {MinWorker}]

InitPath == InitWith(PathCommands, {{f} : f \in PathFiles}, {EmptyFS})

Alive == main.pc # "done"
FileAt(path) == CHOOSE f \in disk : f.path = path

\* ------------------------------------------------- Program::start ----
\* A mutant of WorkerOk: the range check lets 0 through.
WorkerOkFromZero(n) == n \in 0..MaxWorker

\* main.rs:205-208: the worker count the command line may give.
WorkerOk(n) == n \in MinWorker..MaxWorker

\* main.rs:203-248: the two checks; then the channel, the producer thread and
\* the worker threads. The threads are spawned one after another while the
\* main thread does nothing else, so the spawns are one step: a thread not
\* yet spawned is a thread that has not yet taken a step.
Start ==
    /\ main.pc = "start"
    /\ IF ~WorkerOk(command.worker)
       THEN /\ main' = [main EXCEPT !.pc = "done", !.result = "Worker"]
            /\ UNCHANGED <<prod, wk>>
       ELSE IF command.matchers = <<>>
       THEN /\ main' = [main EXCEPT !.pc = "done", !.result = "NoFile"]
            /\ UNCHANGED <<prod, wk>>
       ELSE /\ main' = [main EXCEPT !.pc = "join"]
            /\ prod' = [prod EXCEPT !.pc = "glob"]
            /\ wk' = [w \in 1..command.worker |-> WorkerInit]
    /\ UNCHANGED <<command, disk, files, total, items, chan, enq, fate>>

\* ------------------------------------------------------ the producer ----
\* A mutant of ProdEnd: the sender outlives the producer's closure.
ProdEndKeepTx(out) ==
    /\ prod' = [prod EXCEPT !.pc = "done", !.out = out, !.p = None]
    /\ UNCHANGED chan

\* The producer's closure ends (return or `?`): tx is dropped with it.
ProdEnd(out) ==
    /\ prod' = [prod EXCEPT !.pc = "done", !.out = out, !.p = None]
    /\ chan' = [chan EXCEPT !.tx = FALSE]

\* main.rs:221-222: the next matcher, and glob(matcher)?; after the last
\* matcher, anyhow::Ok(()).
ProdGlob ==
    /\ Alive /\ prod.pc = "glob"
    /\ \/ /\ prod.mi > Len(command.matchers)
          /\ ProdEnd("ok")
       \/ /\ prod.mi <= Len(command.matchers)
          /\ ProdEnd("Pattern")
       \/ /\ prod.mi <= Len(command.matchers)
          /\ prod' = [prod EXCEPT !.pc = "iter"]
          /\ UNCHANGED chan
    /\ UNCHANGED <<command, disk, files, total, items, wk, main, enq, fate>>

\* A mutant of FileProvider_new: a descriptor is built for every path.
FileProvider_newAny(f, id) ==
    Some([id |-> id, path |-> f.path, name |-> f.path.name,
          format |-> f.format, size |-> f.size])

\* main.rs:91-108: FileProvider::new. None when File::open (or the probe of
\* the header, the metadata, the name) fails.
FileProvider_new(f, id) ==
    IF f.openable
    THEN Some([id |-> id, path |-> f.path, name |-> f.path.name,
               format |-> f.format, size |-> f.size])
    ELSE None

\* main.rs:222-227: the glob iterator's next entry: the end of the matches,
\* an unreadable entry, a path that is not a regular file, or a file.
ProdNext ==
    /\ Alive /\ prod.pc = "iter"
    /\ \/ /\ prod' = [prod EXCEPT !.pc = "glob", !.mi = @ + 1]
          /\ UNCHANGED chan
       \/ ProdEnd("Path")
       \/ /\ prod.n < MaxPaths
          /\ prod' = [prod EXCEPT !.n = @ + 1]
          /\ UNCHANGED chan
       \/ /\ prod.n < MaxPaths
          /\ \E f \in disk :
               LET p == FileProvider_new(f, Len(enq) + 1)
               IN  IF IsSome(p)
                   THEN /\ prod' = [prod EXCEPT !.pc = "setlen", !.n = @ + 1, !.p = p]
                        /\ UNCHANGED chan
                   ELSE ProdEnd("Path")
    /\ UNCHANGED <<command, disk, files, total, items, wk, main, enq, fate>>

\* A mutant of NewLength: the length is set to the size of the last file.
NewLengthLast(len, size) == size

\* A mutant of NewLength: the length is not extended.
NewLengthKeep(len, size) == len

\* main.rs:229: the argument of set_length.
NewLength(len, size) == len + size

\* main.rs:228-229: let len = state.total.length().unwrap_or(0);
\* state.total.set_length(len + p.get_size()). Only this thread writes the
\* length, and nothing reads it before every task is joined, so the read
\* and the write are one step.
ProdSetLen ==
    LET len == IF IsSome(total.len) THEN Unwrap(total.len) ELSE 0
    IN  /\ Alive /\ prod.pc = "setlen"
        /\ total' = [total EXCEPT !.len = Some(NewLength(len, Unwrap(prod.p).size))]
        /\ prod' = [prod EXCEPT !.pc = "send"]
        /\ UNCHANGED <<command, disk, files, items, chan, wk, main, enq, fate>>

\* A mutant of RxAlive: start keeps no receiver of its own.
RxAliveWorkersOnly == \E w \in DOMAIN wk : wk[w].pc # "done"

\* A receiver is alive: the one start holds until it returns, or a worker's.
RxAlive == Alive \/ \E w \in DOMAIN wk : wk[w].pc # "done"

\* main.rs:230: tx.send(p)?, which fails only when every receiver is gone.
ProdSend ==
    /\ Alive /\ prod.pc = "send"
    /\ IF RxAlive
       THEN /\ chan' = [chan EXCEPT !.queue = Append(@, Unwrap(prod.p))]
            /\ enq' = Append(enq, Unwrap(prod.p))
            /\ prod' = [prod EXCEPT !.pc = "iter", !.p = None]
       ELSE /\ ProdEnd("Send")
            /\ UNCHANGED enq
    /\ UNCHANGED <<command, disk, files, total, items, wk, main, fate>>

\* ------------------------------------------------ indicatif::ProgressBar ----
\* A mutant of Inc: the bar counts reads, not bytes.
IncOne(pos, n) == pos + 1

\* ProgressBar::inc(n), one atomic addition to the position.
Inc(pos, n) == pos + n

\* ProgressBar::finish: the position jumps to the length (when the bar has
\* one) and the bar is marked finished.
Finished(bar) ==
    [bar EXCEPT !.pos = IF IsSome(bar.len) THEN Unwrap(bar.len) ELSE @,
                !.fin = TRUE]

\* main.rs:133-146: create_progress, only under --verbose.
create_progress(d) ==
    IF command.verbose
    THEN (d.id :> [pos |-> 0, len |-> Some(d.size), fin |-> FALSE]) @@ items
    ELSE items

\* ------------------------------------------------------- the workers ----
\* A mutant of WorkerEnd: a worker whose conversion failed records the error
\* and goes on to the next descriptor.
WorkerEndGoOn(w, out) ==
    wk' = [wk EXCEPT ![w].pc = IF out = "ok" THEN "done" ELSE "recv",
                     ![w].out = out]

\* The worker's closure ends: with anyhow::Ok(()), with the error of `?`, or
\* by unwinding from a panic ("panic").
WorkerEnd(w, out) ==
    wk' = [wk EXCEPT ![w].pc = "done", ![w].out = out]

Note(id, res) == fate' = [fate EXCEPT ![id].res = res]

\* A mutant of Dequeue: the received descriptor stays in the queue.
DequeuePeek(queue) == queue

\* What rx.recv() leaves in the queue: the head is taken by the receiver.
Dequeue(queue) == Tail(queue)

\* main.rs:242: rx.recv(): a descriptor, or Err once the queue is empty and
\* the sender is gone, which ends the loop.
WRecv(w) ==
    /\ Alive /\ wk[w].pc = "recv"
    /\ \/ /\ chan.queue # <<>>
          /\ chan' = [chan EXCEPT !.queue = Dequeue(@)]
          /\ wk' = [wk EXCEPT ![w].pc = "open", ![w].cur = Some(Head(chan.queue)),
                              ![w].k = 0, ![w].data = <<>>, ![w].target = None]
          /\ fate' = [fate EXCEPT ![Head(chan.queue).id].recv = @ + 1]
       \/ /\ chan.queue = <<>> /\ ~chan.tx
          /\ WorkerEnd(w, "ok")
          /\ UNCHANGED <<chan, fate>>
    /\ UNCHANGED <<command, disk, files, total, items, prod, main, enq>>

\* main.rs:156-161 and 184-186: the source is opened, the decoder chosen by
\* the descriptor's format and built, and get_data creates the file's bar.
WOpen(w) ==
    LET d == Unwrap(wk[w].cur)
    IN  /\ Alive /\ wk[w].pc = "open"
        /\ IF ~FileAt(d.path).openable
           THEN WorkerEnd(w, "Io") /\ Note(d.id, "Io") /\ UNCHANGED items
           ELSE IF d.format = "Other"
           THEN WorkerEnd(w, "Format") /\ Note(d.id, "Format") /\ UNCHANGED items
           ELSE IF ~FileAt(d.path).header
           THEN WorkerEnd(w, "Decode") /\ Note(d.id, "Decode") /\ UNCHANGED items
           ELSE /\ wk' = [wk EXCEPT ![w].pc = "read"]
                /\ items' = create_progress(d)
                /\ UNCHANGED fate
        /\ UNCHANGED <<command, disk, files, total, chan, prod, main, enq>>

\* main.rs:174-175: the file is opened with create and write, not truncate,
\* and write_all writes data from offset 0: bytes of the old content past
\* the end of data stay.
Overwrite(old, data) ==
    IF Len(old) > Len(data)
    THEN data \o SubSeq(old, Len(data) + 1, Len(old))
    ELSE data

\* main.rs:197-200 and 162-174, after the read loop has ended with `end`:
\* the file's bar is finished, the extension is sniffed from data[..4]
\* (a panic when data is shorter), and the output file is opened.
AfterLoop(w, end) ==
    LET d == Unwrap(wk[w].cur)
        data == wk[w].data
        ext == SniffExt(data)
        path == OutPath(d.path, command.output, Unwrap(ext))
    IN  /\ items' = IF d.id \in DOMAIN items
                    THEN [items EXCEPT ![d.id] = Finished(@)]
                    ELSE items
        /\ IF Len(data) < SigLen
           THEN /\ WorkerEnd(w, "panic")
                /\ fate' = [fate EXCEPT ![d.id].res = "panic", ![d.id].end = end]
                /\ UNCHANGED files
           ELSE IF ~IsSome(ext)
           THEN /\ WorkerEnd(w, "Format")
                /\ fate' = [fate EXCEPT ![d.id].res = "Format", ![d.id].end = end]
                /\ UNCHANGED files
           ELSE IF path.dir \in ReadOnlyDirs
           THEN /\ WorkerEnd(w, "Io")
                /\ fate' = [fate EXCEPT ![d.id].res = "Io", ![d.id].end = end]
                /\ UNCHANGED files
           ELSE /\ wk' = [wk EXCEPT ![w].pc = "write", ![w].target = Some(path)]
                /\ fate' = [fate EXCEPT ![d.id].end = end]
                /\ files' = IF path \in DOMAIN files THEN files
                            ELSE (path :> <<>>) @@ files
        /\ UNCHANGED total

\* main.rs:187-196: one dump.read(&mut buffer): a chunk, which is appended
\* to data and counted on the bars; or 0 bytes, which breaks the loop; or an
\* error, on which `while let Ok(size)` ends the loop as well.
WRead(w) ==
    LET d == Unwrap(wk[w].cur)
        f == FileAt(d.path)
        k == wk[w].k
    IN  /\ Alive /\ wk[w].pc = "read"
        /\ IF k < Len(f.chunks)
           THEN LET size == Len(f.chunks[k + 1])
                IN  /\ wk' = [wk EXCEPT ![w].k = k + 1,
                                        ![w].data = @ \o f.chunks[k + 1]]
                    /\ total' = [total EXCEPT !.pos = Inc(@, size)]
                    /\ items' = IF d.id \in DOMAIN items
                                THEN [items EXCEPT ![d.id].pos = Inc(@, size)]
                                ELSE items
                    /\ fate' = [fate EXCEPT ![d.id].bytes = @ + size]
                    /\ UNCHANGED files
           ELSE AfterLoop(w, f.end)
        /\ UNCHANGED <<command, disk, chan, prod, main, enq>>

\* main.rs:175-176 and 243: target.write_all(&data), dump returns Ok(()) and
\* the worker goes back to rx.recv().
WWrite(w) ==
    LET d == Unwrap(wk[w].cur)
        path == Unwrap(wk[w].target)
    IN  /\ Alive /\ wk[w].pc = "write"
        /\ files' = [files EXCEPT ![path] = Overwrite(@, wk[w].data)]
        /\ wk' = [wk EXCEPT ![w].pc = "recv"]
        /\ fate' = [fate EXCEPT ![d.id].conv = @ + 1, ![d.id].res = "ok"]
        /\ UNCHANGED <<command, disk, total, items, chan, prod, main, enq>>

\* ------------------------------------------------------ join and finish ----
\* The tasks in spawn order: 0 is the producer, 1..worker the workers.
TaskDone(j) == IF j = 0 THEN prod.pc = "done" ELSE wk[j].pc = "done"
TaskOut(j) == IF j = 0 THEN prod.out ELSE wk[j].out
\* Every task start has spawned: the producer and the workers.
Tasks == 0..Len(wk)

\* A mutant of JoinResult: start reports the latest-spawned of the tasks that
\* have failed by now, whichever task it is waiting for.
JoinResultLatest(j) ==
    LET failed == {k \in Tasks : TaskDone(k) /\ TaskOut(k) # "ok"}
    IN  IF failed = {} THEN TaskOut(j)
        ELSE TaskOut(CHOOSE k \in failed : \A l \in failed : l <= k)

\* main.rs:250: what task.join().unwrap() gives for the task joined.
JoinResult(j) == TaskOut(j)

\* main.rs:249-251: task.join().unwrap()? on the next task, once it has
\* ended: a panic of the task panics the main thread, an error returns from
\* start (and main, which ends the process and every thread still running).
Join ==
    /\ main.pc = "join" /\ TaskDone(main.j)
    /\ main' = IF JoinResult(main.j) = "ok"
               THEN IF main.j = Len(wk)
                    THEN [main EXCEPT !.pc = "finish"]
                    ELSE [main EXCEPT !.j = @ + 1]
               ELSE [main EXCEPT !.pc = "done", !.result = JoinResult(main.j)]
    /\ UNCHANGED <<command, disk, files, total, items, chan, prod, wk, enq, fate>>

\* main.rs:252-253 and 148-150: self.finish(); Ok(())
Finish ==
    /\ main.pc = "finish"
    /\ total' = Finished(total)
    /\ main' = [main EXCEPT !.pc = "done", !.result = "ok"]
    /\ UNCHANGED <<command, disk, files, items, chan, prod, wk, enq, fate>>

Next ==
    \/ Start
    \/ ProdGlob \/ ProdNext \/ ProdSetLen \/ ProdSend
    \/ \E w \in DOMAIN wk : WRecv(w) \/ WOpen(w) \/ WRead(w) \/ WWrite(w)
    \/ Join
    \/ Finish

Spec == Init /\ [][Next]_vars
SpecDump == InitDump /\ [][Next]_vars
SpecPath == InitPath /\ [][Next]_vars
SpecPair == InitPair /\ [][Next]_vars

\* The pipeline with scheduling: every thread that can run is run by the
\* operating system, and every call a thread makes (glob, read, open,
\* write, recv on a channel that has a descriptor or is closed) returns, so
\* the run does not stop while some thread has a step to take.
FairSpec == InitFair /\ [][Next]_vars /\ WF_vars(Next)

\* ================================================================ claims ====
Ids == 1..Len(enq)
InQueue(i) == Cardinality({k \in 1..Len(chan.queue) : chan.queue[k].id = i})
\* The workers whose last descriptor is i, and those converting it now.
Holders(i) ==
    {w \in DOMAIN wk : IsSome(wk[w].cur) /\ Unwrap(wk[w].cur).id = i}
Converting(i) == {w \in Holders(i) : wk[w].pc \in {"open", "read", "write"}}
ConfigOk == WorkerOk(command.worker) /\ command.matchers # <<>>
Ended == main.pc = "done"

\* Every file discovered so far is valid and discovery has not failed.
OnlyValid ==
    /\ prod.out \in {"run", "ok"}
    /\ \A i \in Ids : ValidFile(FileAt(enq[i].path))
    /\ IsSome(prod.p) => ValidFile(FileAt(Unwrap(prod.p).path))

\* C1: with a worker count in range and patterns that match only valid
\* files, in every state of every interleaving each descriptor sent is
\* either still queued or was received exactly once, none is converted more
\* than once, the run never blocks before it ends, and when start has
\* returned it returned Ok with every descriptor received once and converted
\* once.
C1_ExactlyOnce ==
    (ConfigOk /\ OnlyValid) =>
        /\ \A i \in Ids :
              /\ InQueue(i) + fate[i].recv = 1
              /\ fate[i].conv <= fate[i].recv
              /\ Cardinality(Converting(i)) = fate[i].recv - fate[i].conv
        /\ ~Ended => ENABLED Next
        /\ Ended =>
              /\ main.result = "ok"
              /\ \A i \in Ids : fate[i].recv = 1 /\ fate[i].conv = 1
                                /\ fate[i].res = "ok"

\* Two workers have each converted one of two valid files and start has
\* returned Ok.
C1_Witness ==
    /\ Ended /\ main.result = "ok" /\ OnlyValid
    /\ command.worker = 2 /\ Len(enq) = 2
    /\ Holders(1) = {1} /\ Holders(2) = {2}
    /\ fate[1].conv = 1 /\ fate[2].conv = 1

\* C2: when the worker count is out of range or there is no pattern, start
\* returns the configuration error and nothing else ever happens: no thread
\* is spawned, nothing is sent, no bar moves, no file is created.
C2_ValidationFirst ==
    ~ConfigOk =>
        /\ prod.pc = "unspawned" /\ wk = <<>>
        /\ enq = <<>> /\ chan.queue = <<>>
        /\ total = [pos |-> 0, len |-> Some(0), fin |-> FALSE]
        /\ items = <<>> /\ files = EmptyFS
        /\ Ended => main.result =
                        IF command.worker \in MinWorker..MaxWorker
                        THEN "NoFile" ELSE "Worker"

\* start has returned the worker error for a count above the range.
C2_Witness ==
    Ended /\ command.worker > MaxWorker /\ main.result = "Worker"

\* C3 (as claimed): a run with patterns that match no file ends with the
\* "no file" error and creates no output file.
C3_NoFileError ==
    (Ended /\ ConfigOk /\ prod.out = "ok" /\ enq = <<>>) =>
        (main.result = "NoFile" /\ files = EmptyFS)

\* C4 (as claimed): when start returns Ok, every descriptor sent was
\* converted, its decoder read to the end of the data without failing; and
\* a failed discovery or conversion makes start return an error.
C4_SuccessMeansAllConverted ==
    /\ (Ended /\ main.result = "ok") =>
          \A i \in Ids : fate[i].conv = 1 /\ fate[i].end = "eof"
    /\ (Ended /\ (prod.out \notin {"run", "ok"}
                  \/ \E i \in Ids : fate[i].res \notin {"none", "ok"})) =>
          main.result # "ok"

\* Conversions that ended with an error returned by dump.
ConvErrors == {"Format", "Io", "Decode"}

\* C5 (as claimed): when the conversion of one file has failed and the run
\* has ended, nothing was written for that file and every other valid file
\* discovered has been converted.
C5_OthersStillConverted ==
    \A i \in Ids :
        (Ended /\ fate[i].res \in ConvErrors) =>
            /\ fate[i].conv = 0
            /\ \A j \in Ids \ {i} :
                  ValidFile(FileAt(enq[j].path)) => fate[j].conv = 1

\* C5 (amended): a worker whose conversion fails has opened no output file
\* for that descriptor, has ended with that error and holds that descriptor
\* as its last; the failure loses and duplicates nothing: every descriptor
\* sent is still queued, or was received once and is being converted by one
\* worker, or has been converted once, or has failed once.
C5_FailIsolation ==
    /\ \A w \in DOMAIN wk :
          wk[w].out \in ConvErrors =>
              /\ wk[w].pc = "done" /\ wk[w].target = None
              /\ fate[Unwrap(wk[w].cur).id].res = wk[w].out
              /\ fate[Unwrap(wk[w].cur).id].conv = 0
    /\ \A i \in Ids :
          /\ fate[i].res \in ConvErrors =>
                \E w \in Holders(i) : wk[w].out = fate[i].res
          /\ InQueue(i) + fate[i].recv = 1
          /\ fate[i].conv <= fate[i].recv
          /\ Cardinality(Converting(i)) =
                IF fate[i].res = "none" THEN fate[i].recv ELSE 0

\* One worker has failed on a file without a known signature while the
\* other worker has converted a valid file.
C5_Witness ==
    \E w \in DOMAIN wk, i \in Ids :
        /\ wk[w].out = "Format" /\ i # Unwrap(wk[w].cur).id
        /\ fate[i].conv = 1 /\ Holders(i) # {} /\ w \notin Holders(i)

\* A worker that has just returned from a successful dump: it is back at
\* rx.recv() and still holds the buffer and the path of that conversion.
JustWrote(w) == wk[w].pc = "recv" /\ IsSome(wk[w].target)

\* C6 (as claimed): after a successful conversion the output file holds
\* exactly the decoded buffer, whatever it held before the run.
C6_OutputIsDecodedBuffer ==
    \A w \in DOMAIN wk :
        JustWrote(w) => files[Unwrap(wk[w].target)] = wk[w].data

\* C7 (as claimed): the output path has the input's file stem, the sniffed
\* extension, and the output override or else the input's parent directory.
C7_OutputPathShape ==
    \A w \in DOMAIN wk :
        IsSome(wk[w].target) =>
            LET t == Unwrap(wk[w].target)
                d == Unwrap(wk[w].cur)
            IN  /\ file_stem(t.name) = file_stem(d.path.name)
                /\ extension(t.name) \in {Some(FLAC), Some(MP3)}
                /\ t.dir = IF IsSome(command.output) THEN Unwrap(command.output)
                           ELSE d.path.dir

\* The signature table, read position by position.
IsFlac(data) == data[1] = 102 /\ data[2] = 76 /\ data[3] = 97 /\ data[4] = 67
IsId3(data) == data[1] = 73 /\ data[2] = 68 /\ data[3] = 51

\* A worker whose read loop has ended with at least SigLen bytes decoded.
Sniffed(w) ==
    /\ IsSome(wk[w].cur) /\ Len(wk[w].data) >= SigLen
    /\ \/ wk[w].pc = "write" \/ JustWrote(w)
       \/ wk[w].pc = "done" /\ fate[Unwrap(wk[w].cur).id].end # "none"

\* C8: once a file is decoded, its first 4 bytes alone decide: 66 4C 61 43
\* gives an output path with extension flac, 49 44 33 and any fourth byte
\* one with extension mp3 (unless the directory refuses the file), and any
\* other prefix ends the worker with the format error, no output path opened
\* and the file system as it was before the run.
C8_ExtensionBySignature ==
    \A w \in DOMAIN wk :
        Sniffed(w) =>
            LET data == wk[w].data
                opened == IsSome(wk[w].target)
                ext == extension(Unwrap(wk[w].target).name)
            IN  IF IsFlac(data) \/ IsId3(data)
                THEN /\ opened \/ (wk[w].out = "Io" /\ ~opened)
                     /\ opened => ext = Some(IF IsFlac(data) THEN FLAC ELSE MP3)
                ELSE /\ wk[w].pc = "done" /\ wk[w].out = "Format"
                     /\ ~opened /\ files \in DumpFSs

\* A decoded buffer that starts 49 44 33 with a fourth byte other than 3 is
\* about to be written to a path with extension mp3.
C8_Witness ==
    \E w \in DOMAIN wk :
        /\ wk[w].pc = "write" /\ IsId3(wk[w].data) /\ wk[w].data[4] = 102
        /\ extension(Unwrap(wk[w].target).name) = Some(MP3)

\* The sizes on disk of the files sent so far, summed.
RECURSIVE SizeSum(_)
SizeSum(ds) ==
    IF ds = <<>> THEN 0 ELSE FileAt(Head(ds).path).size + SizeSum(Tail(ds))

\* C9: the bar's length is always the sum of the sizes of the files sent,
\* plus, while a descriptor waits to be sent, the size of that file: the
\* length grows by exactly the file's size before the send and by nothing
\* else, so it is the sum over all discovered files when discovery ends Ok.
C9_TotalLength ==
    /\ IsSome(total.len)
    /\ Unwrap(total.len) =
          SizeSum(enq) + IF prod.pc = "send"
                         THEN FileAt(Unwrap(prod.p).path).size ELSE 0
    /\ prod.out = "ok" => Unwrap(total.len) = SizeSum(enq)

\* The second file is about to be sent: the length already counts both.
C9_Witness ==
    /\ prod.pc = "send" /\ Len(enq) = 1
    /\ Unwrap(total.len) = FileV.size + FileB.size

\* The decoded bytes of the files sent: every chunk the decoder returns.
RECURSIVE DecodedSum(_)
DecodedSum(ds) ==
    IF ds = <<>> THEN 0
    ELSE Len(Concat(FileAt(Head(ds).path).chunks)) + DecodedSum(Tail(ds))

\* C10 (as claimed): when start has returned Ok, after finish, the bar's
\* position is the sum of the decoded byte counts of the converted files.
C10_ProcessedAfterFinish ==
    (Ended /\ main.result = "ok") => total.pos = DecodedSum(enq)

\* C10 (amended): when every task has been joined with success, before
\* finish is called, the bar's position is the sum of the decoded byte counts
\* of the converted files; finish then moves the position to the length, the
\* sum of the sizes of the discovered files.
C10_ProcessedBeforeFinish ==
    /\ main.pc = "finish" => total.pos = DecodedSum(enq)
    /\ (Ended /\ main.result = "ok") =>
          (total.fin /\ total.pos = SizeSum(enq))

\* Two workers have each decoded one valid file and every task is joined.
C10_Witness ==
    /\ main.pc = "finish" /\ Len(enq) = 2
    /\ Holders(1) = {1} /\ Holders(2) = {2}
    /\ total.pos = 2 * Len(Concat(FileV.chunks))

\* C11 (as claimed): when start has returned, with a result or an error,
\* the producer and every worker have ended, so none is still running and
\* none holds a descriptor it has not finished.
C11_AllTasksJoined ==
    (Ended /\ ConfigOk) =>
        /\ \A j \in Tasks : TaskDone(j)
        /\ \A i \in Ids : Converting(i) = {}

\* C12: start returns the outcome of the earliest-spawned task that failed:
\* while it joins, and when it has returned an error, every task spawned
\* before the one it is at has ended Ok, and the error it returns is the
\* outcome of the task it is at, whatever later-spawned tasks have failed
\* by then and whenever they did (a task that panicked counts as failed:
\* unwrap raises its panic again in start); the bar is finished, and start
\* returns Ok, only when every task has ended Ok.
C12_FirstFailedInSpawnOrder ==
    ConfigOk =>
        /\ main.pc \in {"join", "finish", "done"} =>
              \A k \in 0..(main.j - 1) : TaskDone(k) /\ TaskOut(k) = "ok"
        /\ (Ended /\ main.result # "ok") =>
              /\ TaskDone(main.j) /\ TaskOut(main.j) # "ok"
              /\ main.result = TaskOut(main.j)
              /\ ~total.fin
        /\ (main.pc = "finish" \/ total.fin \/ main.result = "ok") =>
              \A j \in Tasks : TaskDone(j) /\ TaskOut(j) = "ok"

\* Both workers have failed, each in its own way, and start has returned
\* the error of the first one.
C12_Witness ==
    /\ Ended /\ Len(wk) = 2 /\ prod.out = "ok"
    /\ wk[1].out = "Format" /\ wk[2].out = "panic"
    /\ main.result = "Format"

\* C13 (as claimed): when the decoder fails in the middle of the stream, the
\* worker converting that file ends with a conversion error, and no output
\* file is opened or written for the bytes decoded before the failure.
C13_DecoderFailureSurfaced ==
    \A i \in Ids :
        fate[i].end = "err" =>
            /\ fate[i].res \in ConvErrors /\ fate[i].conv = 0
            /\ \A w \in Holders(i) :
                  /\ wk[w].pc = "done" /\ wk[w].out \in ConvErrors
                  /\ wk[w].target = None
            /\ files \in DumpFSs

\* The outcomes a task's closure can return: anyhow::Ok(()) or one error.
Outcomes == {"ok", "Pattern", "Path", "Send", "Format", "Io", "Decode"}

\* C14 (as claimed): every task that has ended has ended with Ok or with
\* one error value, also on a file whose decoded data is empty or shorter
\* than 4 bytes; and what start gets from a join is a task's outcome.
C14_TasksEndWithOutcome ==
    ConfigOk =>
        /\ \A j \in Tasks : TaskDone(j) => TaskOut(j) \in Outcomes
        /\ (Ended /\ main.result # "ok") => main.result \in Outcomes

ProdFailed == prod.out \notin {"run", "ok"}

\* C16: the step in which pattern expansion or the build of a descriptor
\* fails ends the producer with that error (PatternError from glob, Path
\* from an entry or from FileProvider::new) and changes neither the bar nor
\* the queue nor what was sent; a path whose descriptor cannot be built is
\* never sent nor counted in the length; after the failure the producer
\* takes no step, nothing more is sent, the length stays and the queue only
\* shrinks; and the step that skips a path that is not a file changes
\* neither the bar nor the channel.
C16_ProducerStopsAtFirstError ==
    /\ [](ProdFailed => prod.pc = "done" /\ prod.out \in {"Pattern", "Path"})
    /\ [](\A i \in Ids : FileAt(enq[i].path).openable)
    /\ [](ProdFailed => total.len = Some(SizeSum(enq)))
    /\ [][(~ProdFailed /\ ProdFailed') =>
             /\ prod.pc \in {"glob", "iter"}
             /\ prod'.out = IF prod.pc = "glob" THEN "Pattern" ELSE "Path"
             /\ prod'.mi = prod.mi /\ prod'.n = prod.n
             /\ chan'.queue = chan.queue
             /\ UNCHANGED <<total, enq, wk>>]_vars
    /\ [][ProdFailed =>
             /\ UNCHANGED <<prod, enq>> /\ total'.len = total.len
             /\ chan'.queue = chan.queue
                \/ (chan.queue # <<>> /\ chan'.queue = Tail(chan.queue))]_vars
    /\ [][(prod.pc = "iter" /\ prod'.pc = "iter" /\ prod'.n = prod.n + 1) =>
             UNCHANGED <<total, chan, enq>>]_vars

\* The producer has sent one descriptor, skipped a path that is not a file
\* and then failed with Path: the descriptor is still queued and the length
\* is that file's size.
C16_Witness ==
    /\ prod.out = "Path" /\ prod.n = 2 /\ Len(enq) = 1
    /\ Len(chan.queue) = 1 /\ total.len = Some(enq[1].size)

\* C17 (as claimed): under --verbose, a file's bar is finished only once the
\* file's output has been written; the bar of a file whose conversion has
\* failed is never finished.
C17_ItemCompleteAfterWrite ==
    \A i \in DOMAIN items :
        /\ items[i].fin => fate[i].conv = 1
        /\ fate[i].res \notin {"none", "ok"} => ~items[i].fin

\* The bytes decoded so far of the descriptors 1..n.
RECURSIVE BytesSum(_)
BytesSum(n) == IF n = 0 THEN 0 ELSE fate[n].bytes + BytesSum(n - 1)

\* C18: when no file decodes to more bytes than its size, in every state the
\* bar's position is at most its length: until finish the position is the
\* sum of the bytes decoded of the descriptors sent, each at most the size
\* of its file, and the length already holds the sizes of all of them.
C18_ProcessedWithinLength ==
    (\A f \in disk : Len(Concat(f.chunks)) <= f.size) =>
        /\ IsSome(total.len) /\ total.pos <= Unwrap(total.len)
        /\ \A i \in Ids : fate[i].bytes <= enq[i].size
        /\ SizeSum(enq) <= Unwrap(total.len)
        /\ ~total.fin => total.pos = BytesSum(Len(enq))

\* A worker has decoded the whole of the first file while the producer is
\* about to send the second one.
C18_Witness ==
    /\ prod.pc = "send" /\ Len(enq) = 1 /\ enq[1].path = FileV.path
    /\ total.pos = Len(Concat(FileV.chunks))
    /\ Unwrap(total.len) > FileV.size

\* The output path of a converted descriptor.
OutputOf(i) ==
    OutPath(enq[i].path, command.output,
            Unwrap(SniffExt(Concat(FileAt(enq[i].path).chunks))))

\* C19 (as claimed): two workers never have the output of two different
\* input files open at one path, and two different input files that have
\* been converted have been written to different paths.
C19_DistinctOutputPaths ==
    /\ \A v, w \in DOMAIN wk :
          (/\ v # w /\ wk[v].pc = "write" /\ wk[w].pc = "write"
           /\ Unwrap(wk[v].cur).path # Unwrap(wk[w].cur).path) =>
              wk[v].target # wk[w].target
    /\ \A i, j \in Ids :
          (/\ enq[i].path # enq[j].path
           /\ fate[i].conv = 1 /\ fate[j].conv = 1) =>
              OutputOf(i) # OutputOf(j)

\* C20: the send never fails and never blocks: while the producer runs,
\* start is still waiting to join it and holds its receiver, so whenever
\* the producer is at the send a receiver is alive, also when every worker
\* has ended, and the send can be taken; the producer never ends with a
\* send error: it ends Ok after the last pattern, or with the error of its
\* own discovery.
C20_SendNeverFails ==
    /\ prod.out # "Send"
    /\ prod.pc \notin {"unspawned", "done"} => main.pc = "join" /\ main.j = 0
    /\ prod.pc = "send" => RxAlive /\ ENABLED ProdSend
    /\ prod.out = "ok" => prod.mi > Len(command.matchers)
    /\ ProdFailed => prod.out \in {"Pattern", "Path"}

\* Every worker has ended with an error and the producer is about to send
\* another descriptor.
C20_Witness ==
    /\ prod.pc = "send" /\ wk # <<>> /\ Len(enq) >= 1
    /\ \A w \in DOMAIN wk : wk[w].pc = "done" /\ wk[w].out \in ConvErrors

====
